---- MODULE Spec2Model ----
(***************************************************************************)
(* Model of main.py: the /run endpoint (classify_task, the task_mapping    *)
(* dispatch table, run_task) and the /read endpoint (read_file).           *)
(*                                                                         *)
(* Strings are sequences of one-character strings, so that str.lower(),    *)
(* the `in` substring test, str.startswith() and os.path.abspath() are     *)
(* computed character by character as Python computes them.                *)
(***************************************************************************)
EXTENDS Integers, Sequences, FiniteSets, TLC

\* ------------------------------------------------------------------------
\* Bounds of the model
\* ------------------------------------------------------------------------

\* Number of requests that can be in flight together.
NumReq == 2

\* Largest number of fragments concatenated into a task text.
MaxFrags == 2

Requests == 1..NumReq

\* ------------------------------------------------------------------------
\* Python string primitives
\* ------------------------------------------------------------------------

UpperToLower ==
  ("A" :> "a") @@ ("B" :> "b") @@ ("C" :> "c") @@ ("D" :> "d") @@ ("E" :> "e") @@ ("F" :> "f") @@ ("G" :> "g") @@ ("H" :> "h") @@ ("I" :> "i") @@ ("J" :> "j") @@ ("K" :> "k") @@ ("L" :> "l") @@ ("M" :> "m")
  @@ ("N" :> "n") @@ ("O" :> "o") @@ ("P" :> "p") @@ ("Q" :> "q") @@ ("R" :> "r") @@ ("S" :> "s") @@ ("T" :> "t") @@ ("U" :> "u") @@ ("V" :> "v") @@ ("W" :> "w") @@ ("X" :> "x") @@ ("Y" :> "y") @@ ("Z" :> "z")

\* str.lower(), on ASCII text
lower(s) == [i \in 1..Len(s) |-> IF s[i] \in DOMAIN UpperToLower THEN UpperToLower[s[i]] ELSE s[i]]

\* `sub in s` for strings
In(sub, s) ==
  \/ Len(sub) = 0
  \/ \E i \in 1..(Len(s) - Len(sub) + 1) :
       /\ s[i] = sub[1]
       /\ SubSeq(s, i, i + Len(sub) - 1) = sub

\* s.startswith(prefix)
startswith(s, prefix) ==
  /\ Len(prefix) <= Len(s)
  /\ SubSeq(s, 1, Len(prefix)) = prefix

\* ------------------------------------------------------------------------
\* classify_task (main.py:81-124)
\* ------------------------------------------------------------------------

\* main.py:87  -> "A1"
Cond1(task_lower) == 
    \/ In(<<"d","a","t","a","g","e","n",".","p","y">>, task_lower)
    \/ In(<<"i","n","s","t","a","l","l"," ","u","v">>, task_lower)

\* main.py:89  -> "A2"
Cond2(task_lower) == In(<<"f","o","r","m","a","t">>, task_lower) /\ In(<<"p","r","e","t","t","i","e","r">>, task_lower)

\* Faulty variant: the condition of main.py:91 read as (a or b) and c
Cond3_or_first(task_lower) ==
    /\ (In(<<"w","e","d","n","e","s","d","a","y">>, task_lower) \/ In(<<"c","o","u","n","t">>, task_lower))
    /\ In(<<"d","a","t","e","s",".","t","x","t">>, task_lower)

\* main.py:91  -> "A3"
Cond3(task_lower) == 
    \/ In(<<"w","e","d","n","e","s","d","a","y">>, task_lower)
    \/ (In(<<"c","o","u","n","t">>, task_lower) /\ In(<<"d","a","t","e","s",".","t","x","t">>, task_lower))

\* main.py:93  -> "A4"
Cond4(task_lower) == In(<<"s","o","r","t"," ","c","o","n","t","a","c","t","s">>, task_lower)

\* main.py:95  -> "A5"
Cond5(task_lower) == In(<<"r","e","c","e","n","t">>, task_lower) /\ In(<<".","l","o","g">>, task_lower)

\* Faulty variant: the condition of main.py:97 with `or` for `and`
Cond6_either(task_lower) ==
    \/ In(<<"m","a","r","k","d","o","w","n">>, task_lower)
    \/ In(<<"i","n","d","e","x">>, task_lower)

\* main.py:97  -> "A6"
Cond6(task_lower) == In(<<"m","a","r","k","d","o","w","n">>, task_lower) /\ In(<<"i","n","d","e","x">>, task_lower)

\* main.py:99  -> "A7"
Cond7(task_lower) == In(<<"e","m","a","i","l",".","t","x","t">>, task_lower) /\ In(<<"s","e","n","d","e","r">>, task_lower)

\* main.py:101  -> "A8"
Cond8(task_lower) == In(<<"c","r","e","d","i","t"," ","c","a","r","d">>, task_lower)

\* main.py:103  -> "A9"
Cond9(task_lower) == In(<<"c","o","m","m","e","n","t","s">>, task_lower) /\ In(<<"s","i","m","i","l","a","r">>, task_lower)

\* main.py:105  -> "A10"
Cond10(task_lower) == 
    \/ In(<<"t","i","c","k","e","t","-","s","a","l","e","s",".","d","b">>, task_lower)
    \/ In(<<"g","o","l","d">>, task_lower)

\* main.py:107  -> "B3"
Cond11(task_lower) == 
    \/ In(<<"f","e","t","c","h"," ","d","a","t","a">>, task_lower)
    \/ In(<<"a","p","i">>, task_lower)

\* main.py:109  -> "B4"
Cond12(task_lower) == In(<<"c","l","o","n","e">>, task_lower) /\ In(<<"g","i","t">>, task_lower)

\* main.py:111  -> "B5"
Cond13(task_lower) == In(<<"s","q","l"," ","q","u","e","r","y">>, task_lower)

\* main.py:113  -> "B6"
Cond14(task_lower) == 
    \/ In(<<"s","c","r","a","p","e">>, task_lower)
    \/ In(<<"w","e","b","s","i","t","e">>, task_lower)

\* main.py:115  -> "B7"
Cond15(task_lower) == 
    \/ In(<<"r","e","s","i","z","e"," ","i","m","a","g","e">>, task_lower)
    \/ In(<<"c","o","m","p","r","e","s","s"," ","i","m","a","g","e">>, task_lower)

\* main.py:117  -> "B8"
Cond16(task_lower) == In(<<"t","r","a","n","s","c","r","i","b","e">>, task_lower) /\ In(<<"m","p","3">>, task_lower)

\* main.py:119  -> "B9"
Cond17(task_lower) == In(<<"c","o","n","v","e","r","t"," ","m","a","r","k","d","o","w","n">>, task_lower) /\ In(<<"h","t","m","l">>, task_lower)

\* main.py:121  -> "B10"
Cond18(task_lower) == In(<<"f","i","l","t","e","r"," ","c","s","v">>, task_lower)

\* ------------------------------------------------------------------------
\* Values
\* ------------------------------------------------------------------------

\* Placeholder for a missing string value (Python None / an absent field)
None == "None"

\* fastapi.HTTPException(status_code=..., detail=...)
HTTPException(status_code, detail) ==
  [type |-> "HTTPException", status_code |-> status_code, detail |-> detail]

\* An exception that is an instance of Exception but not of HTTPException;
\* detail holds str(e).
Exception(message) ==
  [type |-> "Exception", status_code |-> 0, detail |-> message]

\* An exception that is not an instance of Exception (SystemExit,
\* KeyboardInterrupt, GeneratorExit).
BaseException(message) ==
  [type |-> "BaseException", status_code |-> 0, detail |-> message]

NoException == [type |-> None, status_code |-> 0, detail |-> None]

\* The two ways a call ends
Return(value) == [raised |-> FALSE, value |-> value, exc |-> NoException]
Raise(exc) == [raised |-> TRUE, value |-> None, exc |-> exc]

classify_task(task) ==
  LET task_lower == lower(task) IN
  IF Cond1(task_lower) THEN Return("A1")
  ELSE IF Cond2(task_lower) THEN Return("A2")
  ELSE IF Cond3(task_lower) THEN Return("A3")
  ELSE IF Cond4(task_lower) THEN Return("A4")
  ELSE IF Cond5(task_lower) THEN Return("A5")
  ELSE IF Cond6(task_lower) THEN Return("A6")
  ELSE IF Cond7(task_lower) THEN Return("A7")
  ELSE IF Cond8(task_lower) THEN Return("A8")
  ELSE IF Cond9(task_lower) THEN Return("A9")
  ELSE IF Cond10(task_lower) THEN Return("A10")
  ELSE IF Cond11(task_lower) THEN Return("B3")
  ELSE IF Cond12(task_lower) THEN Return("B4")
  ELSE IF Cond13(task_lower) THEN Return("B5")
  ELSE IF Cond14(task_lower) THEN Return("B6")
  ELSE IF Cond15(task_lower) THEN Return("B7")
  ELSE IF Cond16(task_lower) THEN Return("B8")
  ELSE IF Cond17(task_lower) THEN Return("B9")
  ELSE IF Cond18(task_lower) THEN Return("B10")
  ELSE Raise(HTTPException(400, "Task not recognized"))

\* ------------------------------------------------------------------------
\* task_mapping (main.py:60-79)
\* ------------------------------------------------------------------------

\* The handler each key of the literal is bound to (main.py:61-78), by name
handler_of(c) ==
  CASE c = "A1"  -> "task_A1_install_and_run_datagen"
    [] c = "A2"  -> "task_A2_format_markdown"
    [] c = "A3"  -> "task_A3_count_weekdays"
    [] c = "A4"  -> "task_A4_sort_contacts"
    [] c = "A5"  -> "task_A5_recent_log_lines"
    [] c = "A6"  -> "task_A6_extract_markdown_titles"
    [] c = "A7"  -> "task_A7_extract_email_sender"
    [] c = "A8"  -> "task_A8_extract_credit_card"
    [] c = "A9"  -> "task_A9_find_similar_comments"
    [] c = "A10" -> "task_A10_compute_gold_ticket_sales"
    [] c = "B3"  -> "task_B3_fetch_api_data"
    [] c = "B4"  -> "task_B4_clone_and_commit"
    [] c = "B5"  -> "task_B5_run_sql_query"
    [] c = "B6"  -> "task_B6_scrape_website"
    [] c = "B7"  -> "task_B7_process_image"
    [] c = "B8"  -> "task_B8_transcribe_audio"
    [] c = "B9"  -> "task_B9_convert_markdown_to_html"
    [] c = "B10" -> "task_B10_filter_csv"

\* The keys of the literal
task_mapping_keys ==
  {"A1", "A2", "A3", "A4", "A5", "A6", "A7", "A8", "A9", "A10",
   "B3", "B4", "B5", "B6", "B7", "B8", "B9", "B10"}

\* Faulty variant: the entry for "B10" is left out of the literal
task_mapping_without_B10 ==
  [c \in task_mapping_keys \ {"B10"} |-> handler_of(c)]

\* The value of task_mapping after the module has been imported
task_mapping_literal ==
  [c \in task_mapping_keys |-> handler_of(c)]


\* ------------------------------------------------------------------------
\* os.path, as read_file uses it (main.py:142-144)
\* ------------------------------------------------------------------------

Slash == "/"

\* str.split("/")
RECURSIVE split(_)
split(s) ==
  IF \A i \in 1..Len(s) : s[i] /= Slash
  THEN <<s>>
  ELSE LET i == CHOOSE k \in 1..Len(s) : s[k] = Slash /\ \A j \in 1..(k - 1) : s[j] /= Slash
       IN <<SubSeq(s, 1, i - 1)>> \o split(SubSeq(s, i + 1, Len(s)))

\* "/".join(comps)
RECURSIVE join_slash(_)
join_slash(comps) ==
  IF comps = <<>> THEN <<>>
  ELSE IF Len(comps) = 1 THEN comps[1]
  ELSE comps[1] \o <<Slash>> \o join_slash(Tail(comps))

\* The loop of posixpath.normpath over the components
RECURSIVE norm_comps(_, _, _)
norm_comps(comps, new_comps, initial_slashes) ==
  IF comps = <<>> THEN new_comps
  ELSE LET comp == Head(comps)
           rest == Tail(comps)
       IN IF comp = <<>> \/ comp = <<".">>
          THEN norm_comps(rest, new_comps, initial_slashes)
          ELSE IF \/ comp /= <<".", ".">>
                  \/ (initial_slashes = 0 /\ new_comps = <<>>)
                  \/ (new_comps /= <<>> /\ new_comps[Len(new_comps)] = <<".", ".">>)
          THEN norm_comps(rest, Append(new_comps, comp), initial_slashes)
          ELSE IF new_comps /= <<>>
          THEN norm_comps(rest, SubSeq(new_comps, 1, Len(new_comps) - 1), initial_slashes)
          ELSE norm_comps(rest, new_comps, initial_slashes)

\* posixpath.normpath
normpath(path) ==
  IF path = <<>> THEN <<".">>
  ELSE LET initial_slashes ==
             IF ~startswith(path, <<Slash>>) THEN 0
             ELSE IF startswith(path, <<Slash, Slash>>) /\ ~startswith(path, <<Slash, Slash, Slash>>)
             THEN 2
             ELSE 1
           joined == join_slash(norm_comps(split(path), <<>>, initial_slashes))
           result == [i \in 1..initial_slashes |-> Slash] \o joined
       IN IF result = <<>> THEN <<".">> ELSE result

\* posixpath.join(a, b)
path_join(a, b) ==
  IF startswith(b, <<Slash>>) THEN b
  ELSE IF a = <<>> \/ a[Len(a)] = Slash THEN a \o b
  ELSE a \o <<Slash>> \o b

\* os.path.abspath(path), evaluated in working directory cwd
abspath(path, cwd) ==
  normpath(IF startswith(path, <<Slash>>) THEN path ELSE path_join(cwd, path))

\* The test of main.py:142 (the path is refused when this is false)
path_is_safe(path, cwd) ==
  \/ startswith(abspath(path, cwd), abspath(<<"/","d","a","t","a">>, cwd))
  \/ startswith(abspath(path, cwd), abspath(<<".","/","d","a","t","a">>, cwd))

\* ------------------------------------------------------------------------
\* Inputs
\* ------------------------------------------------------------------------

\* Task texts submitted to /run
Tasks ==
  { <<"s","q","l"," ","q","u","e","r","y"," ","a","p","i">>,
    <<"F","i","l","t","e","r"," ","C","S","V">>,
    <<"h","e","l","l","o">> }

\* Paths submitted to /read
Paths ==
  { <<"/","d","a","t","a","/","f">>,
    <<"d","a","t","a","/","f">>,
    <<"/","d","a","t","a","b","a","s","e","/","f">>,
    <<"/","d","a","t","a","/",".",".","/","d","a","t","a","b","a","s","e","/","f">>,
    <<"/","d","a","t","a","/",".",".","/",".",".","/","e","t","c","/","p","a","s","s","w","d">> }

\* Working directories the server may have been started in
Cwds ==
  { <<"/">>,
    <<"/","a","p","p">> }

\* Every file a request of the model can name
Locations == {abspath(p, c) : p \in Paths, c \in Cwds}

\* ------------------------------------------------------------------------
\* Handlers (tasksA, tasksB): opaque to main.py
\* ------------------------------------------------------------------------

\* What a handler call can end in: a returned payload, or a raised exception
\* of any class.
HandlerOutcomes ==
  { Return("payload-1"),
    Return("payload-2"),
    Raise(Exception("boom")),
    Raise(HTTPException(422, "rejected by handler")),
    Raise(BaseException("exit")) }

\* ------------------------------------------------------------------------
\* Responses
\* ------------------------------------------------------------------------

\* No response (yet)
NoResponse ==
  [code |-> 0, status |-> None, task |-> None, result |-> None,
   detail |-> None, content |-> None]

\* main.py:133, sent by FastAPI as JSON with status code 200
SuccessEnvelope(classification, result) ==
  [code |-> 200, status |-> "success", task |-> classification, result |-> result,
   detail |-> None, content |-> None]

\* What FastAPI sends for an HTTPException that leaves an endpoint
ErrorResponse(exc) ==
  [code |-> exc.status_code, status |-> None, task |-> None, result |-> None,
   detail |-> exc.detail, content |-> None]

\* main.py:149 with response_class=PlainTextResponse
TextResponse(content) ==
  [code |-> 200, status |-> None, task |-> None, result |-> None,
   detail |-> None, content |-> content]

\* Faulty variant: no `except HTTPException` clause, every exception is wrapped
run_task_except_wrap_all(exc) ==
  Raise(HTTPException(500, exc.detail))

\* Faulty variant: the 500 carries a fixed text instead of str(e)
run_task_except_fixed_detail(exc) ==
  IF exc.type = "HTTPException" THEN Raise(exc)
  ELSE IF exc.type = "Exception" THEN Raise(HTTPException(500, "Internal Server Error"))
  ELSE Raise(exc)

\* The except clauses of run_task (main.py:134-137): the exception that
\* leaves run_task when exc is raised inside the try block
run_task_except(exc) ==
  IF exc.type = "HTTPException" THEN Raise(exc)
  ELSE IF exc.type = "Exception" THEN Raise(HTTPException(500, exc.detail))
  ELSE Raise(exc)

\* Faulty variant: the lookup ignores the classification
lookup_first_entry(mapping, classification) ==
  Return(mapping["A1"])

\* task_mapping[classification] (main.py:132); a missing key raises KeyError,
\* whose str() is the repr of the key
lookup(mapping, classification) ==
  IF classification \in DOMAIN mapping
  THEN Return(mapping[classification])
  ELSE Raise(Exception("'" \o classification \o "'"))

\* Faulty variant: classification is a module-level global shared by all requests
assign_global(locals, r, value) ==
  [q \in DOMAIN locals |-> value]

\* Assignment to a local variable of request r's call frame
assign_local(locals, r, value) ==
  [locals EXCEPT ![r] = value]

\* ------------------------------------------------------------------------
\* State
\* ------------------------------------------------------------------------

VARIABLES
  task_mapping,    \* the module-level dict
  cwd,             \* the process's working directory
  fs,              \* the files that exist, by absolute normalized path
  endpoint,        \* per request: "/run", "/read" or None
  arg,             \* per request: the task or path parameter
  pc,              \* per request: where its handler function is
  classification,  \* per request: the local variable of run_task
  calls,           \* per request: the handler calls made, in order
  outcome,         \* per request: how its handler call ended
  resp             \* per request: the response sent

vars == <<task_mapping, cwd, fs, endpoint, arg, pc, classification, calls, outcome, resp>>

\* What the endpoint function ended in
Finish(r, result) ==
  IF result.raised /\ result.exc.type = "HTTPException"
  THEN /\ resp' = [resp EXCEPT ![r] = ErrorResponse(result.exc)]
       /\ pc' = [pc EXCEPT ![r] = "done"]
  ELSE IF result.raised
  THEN /\ resp' = resp
       /\ pc' = [pc EXCEPT ![r] = "crashed"]
  ELSE /\ resp' = [resp EXCEPT ![r] = result.value]
       /\ pc' = [pc EXCEPT ![r] = "done"]

Idle ==
  /\ endpoint = [r \in Requests |-> None]
  /\ arg = [r \in Requests |-> <<>>]
  /\ pc = [r \in Requests |-> "idle"]
  /\ classification = [r \in Requests |-> None]
  /\ calls = [r \in Requests |-> <<>>]
  /\ outcome = [r \in Requests |-> Return(None)]
  /\ resp = [r \in Requests |-> NoResponse]

Init ==
  /\ task_mapping = task_mapping_literal
  /\ cwd \in Cwds
  /\ fs = Locations
  /\ Idle

\* ------------------------------------------------------------------------
\* POST /run (main.py:126-137)
\* ------------------------------------------------------------------------

\* A request arrives
RunRequest(r, task) ==
  /\ pc[r] = "idle"
  /\ endpoint' = [endpoint EXCEPT ![r] = "/run"]
  /\ arg' = [arg EXCEPT ![r] = task]
  /\ pc' = [pc EXCEPT ![r] = "run_classify"]
  /\ UNCHANGED <<task_mapping, cwd, fs, classification, calls, outcome, resp>>

\* main.py:129
RunClassify(r) ==
  /\ pc[r] = "run_classify"
  /\ LET c == classify_task(arg[r]) IN
       IF c.raised
       THEN /\ Finish(r, run_task_except(c.exc))
            /\ UNCHANGED classification
       ELSE /\ classification' = assign_local(classification, r, c.value)
            /\ pc' = [pc EXCEPT ![r] = "run_lookup"]
            /\ UNCHANGED resp
  /\ UNCHANGED <<task_mapping, cwd, fs, endpoint, arg, calls, outcome>>

\* main.py:132, the lookup and the start of the call
RunCall(r) ==
  /\ pc[r] = "run_lookup"
  /\ LET h == lookup(task_mapping, classification[r]) IN
       IF h.raised
       THEN /\ Finish(r, run_task_except(h.exc))
            /\ UNCHANGED calls
       ELSE /\ calls' = [calls EXCEPT ![r] = Append(@, [handler |-> h.value, args |-> <<>>])]
            /\ pc' = [pc EXCEPT ![r] = "in_handler"]
            /\ UNCHANGED resp
  /\ UNCHANGED <<task_mapping, cwd, fs, endpoint, arg, classification, outcome>>

\* main.py:132-137, the handler call ends and run_task with it
RunHandlerEnds(r, o) ==
  /\ pc[r] = "in_handler"
  /\ outcome' = [outcome EXCEPT ![r] = o]
  /\ IF o.raised
     THEN Finish(r, run_task_except(o.exc))
     ELSE Finish(r, Return(SuccessEnvelope(classification[r], o.value)))
  /\ UNCHANGED <<task_mapping, cwd, fs, endpoint, arg, classification, calls>>


\* ------------------------------------------------------------------------
\* GET /read (main.py:139-151)
\* ------------------------------------------------------------------------

\* os.path.exists(path): the file system has no symbolic links, so the file
\* a path names is the one at its absolute normalized form
exists(path) == abspath(path, cwd) \in fs

\* The except clause of read_file (main.py:150-151)
read_file_except(exc) ==
  IF exc.type \in {"Exception", "HTTPException"}
  THEN Raise(HTTPException(500, exc.detail))
  ELSE Raise(exc)

\* What open(path) and f.read() can end in (main.py:147-148)
OpenOutcomes(path) ==
  IF exists(path)
  THEN { Return("file content"),
         Raise(Exception("[Errno 5] Input/output error")) }
  ELSE { Raise(Exception("[Errno 2] No such file or directory")) }

\* A request arrives
ReadRequest(r, path) ==
  /\ pc[r] = "idle"
  /\ endpoint' = [endpoint EXCEPT ![r] = "/read"]
  /\ arg' = [arg EXCEPT ![r] = path]
  /\ pc' = [pc EXCEPT ![r] = "read_check"]
  /\ UNCHANGED <<task_mapping, cwd, fs, classification, calls, outcome, resp>>

\* main.py:142-143
ReadCheck(r) ==
  /\ pc[r] = "read_check"
  /\ IF ~path_is_safe(arg[r], cwd)
     THEN Finish(r, Raise(HTTPException(400, "Access to files outside /data is forbidden")))
     ELSE /\ pc' = [pc EXCEPT ![r] = "read_exists"]
          /\ UNCHANGED resp
  /\ UNCHANGED <<task_mapping, cwd, fs, endpoint, arg, classification, calls, outcome>>

\* main.py:144-145
ReadExists(r) ==
  /\ pc[r] = "read_exists"
  /\ IF ~exists(arg[r])
     THEN Finish(r, Raise(HTTPException(404, "File not found")))
     ELSE /\ pc' = [pc EXCEPT ![r] = "read_open"]
          /\ UNCHANGED resp
  /\ UNCHANGED <<task_mapping, cwd, fs, endpoint, arg, classification, calls, outcome>>

\* main.py:146-151
ReadOpen(r) ==
  /\ pc[r] = "read_open"
  /\ \E o \in OpenOutcomes(arg[r]) :
       /\ outcome' = [outcome EXCEPT ![r] = o]
       /\ IF o.raised
          THEN Finish(r, read_file_except(o.exc))
          ELSE Finish(r, Return(TextResponse(o.value)))
  /\ UNCHANGED <<task_mapping, cwd, fs, endpoint, arg, classification, calls>>

\* ------------------------------------------------------------------------
\* The file system under /read, changed by other processes
\* ------------------------------------------------------------------------

\* Another process removes the file that request r has been let through to
\* and has not opened yet
FsRemove(r) ==
  /\ pc[r] \in {"read_exists", "read_open"}
  /\ exists(arg[r])
  /\ fs' = fs \ {abspath(arg[r], cwd)}
  /\ UNCHANGED <<task_mapping, cwd, endpoint, arg, pc, classification, calls, outcome, resp>>

\* Another process creates that file
FsCreate(r) ==
  /\ pc[r] \in {"read_exists", "read_open"}
  /\ ~exists(arg[r])
  /\ fs' = fs \cup {abspath(arg[r], cwd)}
  /\ UNCHANGED <<task_mapping, cwd, endpoint, arg, pc, classification, calls, outcome, resp>>

\* ------------------------------------------------------------------------
\* The server
\* ------------------------------------------------------------------------

Next ==
  \/ \E r \in Requests, task \in Tasks : RunRequest(r, task)
  \/ \E r \in Requests : RunClassify(r)
  \/ \E r \in Requests : RunCall(r)
  \/ \E r \in Requests, o \in HandlerOutcomes : RunHandlerEnds(r, o)
  \/ \E r \in Requests, path \in Paths : ReadRequest(r, path)
  \/ \E r \in Requests : ReadCheck(r)
  \/ \E r \in Requests : ReadExists(r)
  \/ \E r \in Requests : ReadOpen(r)
  \/ \E r \in Requests : FsRemove(r)
  \/ \E r \in Requests : FsCreate(r)

Spec == Init /\ [][Next]_vars

\* ------------------------------------------------------------------------
\* classify_task alone, over every text built from the rules' substrings
\* ------------------------------------------------------------------------

\* The rules of the classifier as the design states them: rule k holds when
\* every substring of one of its alternatives occurs in the text
RuleTable ==
  <<
     [category |-> "A1", alternatives |-> {{<<"d","a","t","a","g","e","n",".","p","y">>}, {<<"i","n","s","t","a","l","l"," ","u","v">>}}],
     [category |-> "A2", alternatives |-> {{<<"f","o","r","m","a","t">>, <<"p","r","e","t","t","i","e","r">>}}],
     [category |-> "A3", alternatives |-> {{<<"w","e","d","n","e","s","d","a","y">>}, {<<"c","o","u","n","t">>, <<"d","a","t","e","s",".","t","x","t">>}}],
     [category |-> "A4", alternatives |-> {{<<"s","o","r","t"," ","c","o","n","t","a","c","t","s">>}}],
     [category |-> "A5", alternatives |-> {{<<"r","e","c","e","n","t">>, <<".","l","o","g">>}}],
     [category |-> "A6", alternatives |-> {{<<"m","a","r","k","d","o","w","n">>, <<"i","n","d","e","x">>}}],
     [category |-> "A7", alternatives |-> {{<<"e","m","a","i","l",".","t","x","t">>, <<"s","e","n","d","e","r">>}}],
     [category |-> "A8", alternatives |-> {{<<"c","r","e","d","i","t"," ","c","a","r","d">>}}],
     [category |-> "A9", alternatives |-> {{<<"c","o","m","m","e","n","t","s">>, <<"s","i","m","i","l","a","r">>}}],
     [category |-> "A10", alternatives |-> {{<<"t","i","c","k","e","t","-","s","a","l","e","s",".","d","b">>}, {<<"g","o","l","d">>}}],
     [category |-> "B3", alternatives |-> {{<<"f","e","t","c","h"," ","d","a","t","a">>}, {<<"a","p","i">>}}],
     [category |-> "B4", alternatives |-> {{<<"c","l","o","n","e">>, <<"g","i","t">>}}],
     [category |-> "B5", alternatives |-> {{<<"s","q","l"," ","q","u","e","r","y">>}}],
     [category |-> "B6", alternatives |-> {{<<"s","c","r","a","p","e">>}, {<<"w","e","b","s","i","t","e">>}}],
     [category |-> "B7", alternatives |-> {{<<"r","e","s","i","z","e"," ","i","m","a","g","e">>}, {<<"c","o","m","p","r","e","s","s"," ","i","m","a","g","e">>}}],
     [category |-> "B8", alternatives |-> {{<<"t","r","a","n","s","c","r","i","b","e">>, <<"m","p","3">>}}],
     [category |-> "B9", alternatives |-> {{<<"c","o","n","v","e","r","t"," ","m","a","r","k","d","o","w","n">>, <<"h","t","m","l">>}}],
     [category |-> "B10", alternatives |-> {{<<"f","i","l","t","e","r"," ","c","s","v">>}}]
  >>

NumRules == Len(RuleTable)

Triggers == UNION {UNION RuleTable[k].alternatives : k \in 1..NumRules}

Fragments ==
  Triggers \cup { <<"A","P","I">>, <<"W","e","d","n","e","s","d","a","y">>, <<"h","e","l","l","o">> }

Separators == { <<>>, <<" ">> }

RECURSIVE concat(_, _)
concat(frags, sep) ==
  IF Len(frags) = 1 THEN frags[1]
  ELSE frags[1] \o sep \o concat(Tail(frags), sep)

Texts ==
  { concat(frags, sep) :
      frags \in UNION {[1..n -> Fragments] : n \in 1..MaxFrags},
      sep \in Separators }

InitClassify ==
  /\ task_mapping = task_mapping_literal
  /\ cwd = <<Slash>>
  /\ fs = Locations
  /\ endpoint = [r \in Requests |-> IF r = 1 THEN "/run" ELSE None]
  /\ arg \in {[r \in Requests |-> IF r = 1 THEN text ELSE <<>>] : text \in Texts}
  /\ pc = [r \in Requests |-> IF r = 1 THEN "run_classify" ELSE "idle"]
  /\ classification = [r \in Requests |-> None]
  /\ calls = [r \in Requests |-> <<>>]
  /\ outcome = [r \in Requests |-> Return(None)]
  /\ resp = [r \in Requests |-> NoResponse]

NextClassify ==
  \E r \in Requests : RunClassify(r)

SpecClassify == InitClassify /\ [][NextClassify]_vars


\* ------------------------------------------------------------------------
\* Properties
\* ------------------------------------------------------------------------

\* Rule k of the design holds on an (already lowercased) text
RuleHolds(k, text) ==
  \E alt \in RuleTable[k].alternatives : \A s \in alt : In(s, text)

\* k is the lowest-numbered rule that holds on the text
IsFirstRule(k, text) ==
  /\ RuleHolds(k, text)
  /\ \A j \in 1..(k - 1) : ~RuleHolds(j, text)

NoRuleHolds(text) == \A k \in 1..NumRules : ~RuleHolds(k, text)

\* Request r is a /run request that is past its call of classify_task
Classified(r) ==
  /\ endpoint[r] = "/run"
  /\ pc[r] \notin {"idle", "run_classify"}

\* Request r's endpoint function has ended
Ended(r) == pc[r] \in {"done", "crashed"}

\* C1: classify_task is first-match-wins over the 18 rules in their fixed
\* order: whenever a task text has been classified, the category is that of
\* the lowest-numbered rule that holds on the lowercased text, rule 3 being
\* "wednesday" OR ("count" AND "dates.txt").
C1_FirstMatchWins ==
  \A r \in Requests :
    Classified(r) =>
      \A k \in 1..NumRules :
        IsFirstRule(k, lower(arg[r])) => classification[r] = RuleTable[k].category

\* A text holding both "sql query" (rule 13) and "api" (rule 11) got B3
C1_Witness ==
  \E r \in Requests :
    /\ Classified(r)
    /\ RuleHolds(11, lower(arg[r]))
    /\ RuleHolds(13, lower(arg[r]))
    /\ IsFirstRule(11, lower(arg[r]))
    /\ classification[r] = "B3"

\* The texts made of the substrings of one alternative of rule k and nothing
\* else but a separator, in any order
OwnTexts ==
  [k \in 1..NumRules |->
     { concat(order, sep) :
         order \in UNION { { f \in [1..Cardinality(alt) -> alt] :
                               \A i, j \in DOMAIN f : f[i] = f[j] => i = j } :
                           alt \in RuleTable[k].alternatives },
         sep \in Separators }]

\* C8: no rule is shadowed on its own triggers: a text made of only the
\* trigger substrings of rule k satisfies no earlier rule and is classified
\* to rule k's category.
C8_NoRuleShadowed ==
  \A r \in Requests :
    Classified(r) =>
      \A k \in 1..NumRules :
        arg[r] \in OwnTexts[k] =>
          /\ \A j \in 1..(k - 1) : ~RuleHolds(j, lower(arg[r]))
          /\ classification[r] = RuleTable[k].category

\* Rule 17's own text ("convert markdown" with "html"), which holds rule 6's
\* "markdown", got B9
C8_Witness ==
  \E r \in Requests :
    /\ Classified(r)
    /\ arg[r] \in OwnTexts[17]
    /\ In(<<"m","a","r","k","d","o","w","n">>, lower(arg[r]))
    /\ classification[r] = "B9"

\* The number of the first rule that holds on each task of the server's
\* inputs, 0 when none does
TaskRule ==
  [task \in Tasks |->
     IF NoRuleHolds(lower(task)) THEN 0
     ELSE CHOOSE k \in 1..NumRules : IsFirstRule(k, lower(task))]

\* C4: a /run request whose task text matches none of the 18 rules ends
\* with a 400 response whose detail is "Task not recognized", and no handler
\* is invoked for it.
C4_UnrecognizedIs400 ==
  \A r \in Requests :
    (Classified(r) /\ TaskRule[arg[r]] = 0) =>
      /\ pc[r] = "done"
      /\ resp[r].code = 400
      /\ resp[r].detail = "Task not recognized"
      /\ calls[r] = <<>>

\* A request with a text that no rule matches has been answered
C4_Witness ==
  \E r \in Requests :
    /\ Classified(r)
    /\ TaskRule[arg[r]] = 0
    /\ resp[r].code = 400

\* Request r is a /run request whose handler call has ended by raising
HandlerFailed(r) ==
  /\ endpoint[r] = "/run"
  /\ Ended(r)
  /\ calls[r] /= <<>>
  /\ outcome[r].raised

\* Request r is a /run request whose handler call has ended by returning
HandlerReturned(r) ==
  /\ endpoint[r] = "/run"
  /\ Ended(r)
  /\ calls[r] /= <<>>
  /\ ~outcome[r].raised

C6_SuccessEnvelope ==
  \A r \in Requests :
    (HandlerReturned(r) /\ TaskRule[arg[r]] /= 0) =>
          LET c == RuleTable[TaskRule[arg[r]]].category IN
            /\ calls[r] = << [handler |-> handler_of(c), args |-> <<>>] >>
            /\ pc[r] = "done"
            /\ resp[r] = [code |-> 200, status |-> "success", task |-> c,
                          result |-> outcome[r].value, detail |-> None,
                          content |-> None]

\* A handler has returned a payload and its request was answered with it
C6_Witness ==
  \E r \in Requests :
    /\ HandlerReturned(r)
    /\ classification[r] = "B10"
    /\ resp[r].result = "payload-2"

\* The categories classify_task can return
ClassifierRange == {RuleTable[k].category : k \in 1..NumRules}

\* C9: the dispatch table is total over the classifier's range: every
\* category classify_task can return is a key of task_mapping bound to one
\* handler, so the lookup of run_task never misses.
C9_DispatchTotal ==
  /\ \A c \in ClassifierRange :
       /\ c \in DOMAIN task_mapping
       /\ task_mapping[c] = handler_of(c)
  /\ \A r \in Requests :
       (Classified(r) /\ classification[r] /= None) =>
         /\ classification[r] \in DOMAIN task_mapping
         /\ pc[r] /= "run_lookup" => calls[r] /= <<>>

\* A lookup for the last category of the table has succeeded
C9_Witness ==
  \E r \in Requests :
    /\ pc[r] = "in_handler"
    /\ classification[r] = "B10"
    /\ calls[r] = << [handler |-> "task_B10_filter_csv", args |-> <<>>] >>

\* The response a /run request gets when it runs alone, from its own task
\* text and its own handler's outcome
RunAlone(task, o) ==
  IF TaskRule[task] = 0
  THEN ErrorResponse(HTTPException(400, "Task not recognized"))
  ELSE LET k == TaskRule[task] IN
       IF ~o.raised THEN SuccessEnvelope(RuleTable[k].category, o.value)
       ELSE IF o.exc.type = "HTTPException" THEN ErrorResponse(o.exc)
       ELSE IF o.exc.type = "Exception" THEN ErrorResponse(HTTPException(500, o.exc.detail))
       ELSE NoResponse

\* The responses a /read request can get when it runs alone, from its own
\* path and what the file system answers
ReadAlone(path) ==
  IF ~path_is_safe(path, cwd)
  THEN { ErrorResponse(HTTPException(400, "Access to files outside /data is forbidden")) }
  ELSE { ErrorResponse(HTTPException(404, "File not found")),
         TextResponse("file content"),
         ErrorResponse(HTTPException(500, "[Errno 5] Input/output error")),
         ErrorResponse(HTTPException(500, "[Errno 2] No such file or directory")) }

\* C10: requests are independent under any interleaving: the dispatch table
\* keeps its startup value, and every ended request has the response it
\* would have had running alone, whatever the other requests did meanwhile.
C10_Independent ==
  /\ task_mapping = task_mapping_literal
  /\ \A r \in Requests :
       Ended(r) =>
         /\ endpoint[r] = "/run" => resp[r] = RunAlone(arg[r], outcome[r])
         /\ endpoint[r] = "/read" => resp[r] \in ReadAlone(arg[r])

\* A request has ended while another one, classified differently, is still
\* inside its handler
C10_Witness ==
  \E r, q \in Requests :
    /\ r /= q
    /\ HandlerReturned(r)
    /\ pc[q] = "in_handler"
    /\ classification[r] /= classification[q]

\* The path lies under the sandbox root /data
UnderRoot(abs) ==
  \/ abs = <<"/","d","a","t","a">>
  \/ startswith(abs, <<"/","d","a","t","a","/">>)

\* read_file has let the request past its sandbox check
Accepted(r) ==
  /\ endpoint[r] = "/read"
  /\ \/ pc[r] \in {"read_exists", "read_open"}
     \/ pc[r] = "done" /\ resp[r].code \in {200, 404, 500}

\* C2: every path read_file accepts resolves, after normalization, to a
\* location underneath the sandbox root /data.
C2_AcceptedUnderRoot ==
  \A r \in Requests :
    Accepted(r) => UnderRoot(abspath(arg[r], cwd))

\* The path has a ".." segment
HasDotDot(path) ==
  \E i \in DOMAIN split(path) : split(path)[i] = <<".", ".">>

\* C3: a requested path with ".." segments that leaves the sandbox is
\* rejected with the 400 outside-sandbox error, never 404, 500 or content.
C3_TraversalRejected ==
  \A r \in Requests :
    ( /\ endpoint[r] = "/read"
      /\ pc[r] /= "read_check"
      /\ HasDotDot(arg[r])
      /\ ~UnderRoot(abspath(arg[r], cwd)) ) =>
        /\ pc[r] = "done"
        /\ resp[r].code = 400
        /\ resp[r].detail = "Access to files outside /data is forbidden"

\* C7: a /read request for a path inside the sandbox that does not exist
\* yields 404 and never 500, also when the file is removed between the
\* existence check and the open.
C7_MissingFileIs404 ==
  \A r \in Requests :
    ( /\ endpoint[r] = "/read"
      /\ pc[r] = "done"
      /\ outcome[r] = Raise(Exception("[Errno 2] No such file or directory")) ) =>
        resp[r].code = 404

====
